---- MODULE Spec2Model ----
(***************************************************************************)
(* Model of StreamPlayer (src/modules/stream_player.py): the play/stop     *)
(* callers serialised by _lock, the unlocked monitor threads, the mpv      *)
(* player processes and the feh fallback viewer processes.                 *)
(*                                                                         *)
(* Granularity: one step per access of a shared field by a thread.  A      *)
(* time.sleep() is the state before the step that follows it; a process    *)
(* may exit at any time (ProcExit).  _terminate_process is one step: the   *)
(* SIGTERM / wait / SIGKILL escalation ends with the process dead, and a   *)
(* process that is being terminated is alive until then.  A feh viewer     *)
(* runs until it is terminated.                                            *)
(***************************************************************************)
EXTENDS Integers, FiniteSets, Sequences, TLC

\* ----------------------------------------------------------------- bounds
NumCallers == 2      \* threads that call play()/stop() (HTTP workers, MQTT)
MaxMonitors == 2     \* monitor threads that exist at the same time
MaxProcs == 3        \* mpv process slots (a spawn beyond them fails)
MaxFb == 2           \* feh process slots (a spawn beyond them fails)
MaxCalls == 3        \* play()/stop() calls in one behaviour
MaxStatusCalls == 2  \* play()/stop() calls in one behaviour with a status reader
MaxHandlerCalls == 2 \* requests in one behaviour of the request handlers
MaxLiveCalls == 2    \* play()/stop() calls in one behaviour under fair scheduling
MaxMonitorCalls == 2 \* play()/stop() calls in one behaviour with the launch history
MaxReconnects == 7   \* consecutive MQTT reconnects in one behaviour
MaxSignalCalls == 2  \* play/stop calls besides the signal handler's stop
MaxRequests == 3     \* /api/config requests in one behaviour
MaxConns == 8        \* MQTT connections started in one behaviour
MaxTermCalls == 3    \* _terminate_process calls on one handle in one behaviour
max_attempts == 1    \* player.max_reconnect_attempts (default 10)

Callers == 1..NumCallers
Monitors == 1..MaxMonitors
Pids == 1..MaxProcs
FbPids == 1..MaxFb
Urls == {"a", "b"}
None == "none"
Statuses == {"stopped", "starting", "playing", "reconnecting", "error"}

VARIABLES
    procs,            \* mpv processes: slot -> "free" | "alive" | "confirmed" | "dead";
                      \* confirmed: alive, and seen alive by a settle check
    fbprocs,          \* feh processes: slot -> "free" | "alive"
    process,          \* self._process: 0 (None) or an mpv slot
    current_stream,   \* self._current_stream: None or a url
    status,           \* self._status
    lock,             \* self._lock: 0 (free) or the caller holding it
    monitor_thread,   \* self._monitor_thread: 0 (None) or a monitor
    running,          \* self._running
    fallback_process, \* self._fallback_process: 0 (None) or a feh slot
    fallback_image,   \* streams.fallback_image is set, the file exists, feh is installed
    caller,           \* per calling thread: position and locals of play/stop
    mon,              \* per monitor thread: position and locals of _monitor_loop
    budget,           \* play()/stop() budget the behaviour may still begin
    last,             \* history: the last call that returned, until the next begins,
                      \* and the monitor exhaustions since the last call began
    rd,               \* a thread inside the /api/status handler
    retained,         \* the retained MQTT status message: status and current_stream
    history,          \* the monitors record their launch history (url, tries)
    term,             \* one _terminate_process call in detail: the thread inside
                      \* it, the process it is given and the signals sent
    mq,               \* MQTTClient: its fields, the paho network thread inside a
                      \* callback and the thread inside MQTTClient.stop()
    sig,              \* the shutdown signal handler on the main thread
    conf              \* ConfigManager: the stored configuration and its file

vars == <<procs, fbprocs, process, current_stream, status, lock, monitor_thread,
          running, fallback_process, fallback_image, caller, mon, budget, last, rd,
          retained, history, term, mq, sig, conf>>

\* ---------------------------------------------------------------- helpers
IdleCaller == [pc |-> "idle", url |-> None, old |-> 0, new |-> 0, pre |-> None,
               due |-> FALSE, via |-> "direct", obs |-> FALSE]
FreeMonitor == [pc |-> "free", attempts |-> 0, sup |-> "no", due |-> FALSE, new |-> 0,
                at |-> -1, url |-> None, tries |-> 0]
IdleReader == [pc |-> "idle", status |-> None, stream |-> None, seen |-> {}]
NoCall == [op |-> "none", url |-> None, exh |-> 0]
\* MQTTClient after __init__: running/connected/count are _running, _connected,
\* _reconnect_count; client: the paho client object self.client names (0: None);
\* loops: the client objects whose network thread runs; cb: the network thread
\* inside a callback (of: its client, delay: the backoff it computed);
\* st: the thread inside MQTTClient.stop(); conns: the connections started;
\* fresh: a connection succeeded since the last disconnect
NoMqtt == [running |-> FALSE, connected |-> FALSE, count |-> 0, client |-> 0,
           loops |-> {}, cb |-> [pc |-> "idle", of |-> 0, delay |-> 0],
           st |-> "none", conns |-> 0, fresh |-> FALSE]

\* ConfigManager after _load: self.config is a dict of sections, each a nested
\* dict object. top: the object each section key refers to; heap: the fields of
\* those objects; file: the sections last written by save(); orig: the passwords
\* at the start; reqs: requests served.
Mask == "***"
Sections == {"mqtt", "unifi_protect"}
SectionOf(x) == [s \in Sections |-> x]
NoConfig == [top |-> [mqtt |-> 1, unifi_protect |-> 2],
             heap |-> <<[username |-> "u0", password |-> ""],
                        [username |-> "u0", password |-> ""]>>,
             file |-> SectionOf([username |-> "u0", password |-> ""]),
             orig |-> SectionOf(""), reqs |-> 0]

\* No signal was received. pc: "waiting": signal_handler runs on the main thread
\* and stream_player.stop() waits for the player lock; "stopping": it has it.
NoSignal == [pc |-> "none"]

\* given: the handle is a Popen (not None); state: the process it names is
\* running, a zombie (exited, exit status not collected) or reaped (exit status
\* collected by a poll()/wait() of some thread, the pid is gone);
\* sigs: the signals sent to its group; waits: the waits that blocked;
\* raised: the except clause absorbed an exception in the last call;
\* exited_at: where the call was when the process exited
NoTerm == [pc |-> "idle", calls |-> 0, given |-> FALSE, state |-> "reaped",
           sigs |-> <<>>, waits |-> 0, raised |-> FALSE, exited_at |-> "before"]

\* Popen handles some thread still holds; a dead process nobody holds is forgotten.
Refs(h, cl) == {h} \cup {cl[c].old : c \in Callers} \cup {cl[c].new : c \in Callers}
                   \cup {mon[m].new : m \in Monitors}
Reap(ps, h, cl) ==
    [i \in Pids |-> IF ps[i] = "dead" /\ i \notin Refs(h, cl) THEN "free" ELSE ps[i]]

FreePids(ps) == {i \in Pids : ps[i] = "free"}
NewPid(ps) == CHOOSE i \in FreePids(ps) : \A j \in FreePids(ps) : i <= j
FreeFbs(fs) == {i \in FbPids : fs[i] = "free"}
NewFb(fs) == CHOOSE i \in FreeFbs(fs) : \A j \in FreeFbs(fs) : i <= j
FreeMons == {m \in Monitors : mon[m].pc = "free"}

\* No thread is inside play(), stop() or a request handler.
NoCallInProgress == \A c \in Callers : caller[c].pc = "idle"

\* process.poll() is None
Poll(ps, p) == ps[p] \in {"alive", "confirmed"}
IsAlive(ps, p) == p # 0 /\ Poll(ps, p)
Exited(ps, p) == p # 0 /\ ~Poll(ps, p)

AliveProcs == {i \in Pids : Poll(procs, i)}
AliveFbs == {i \in FbPids : fbprocs[i] = "alive"}

\* _terminate_process: a no-op unless process.poll() is None
TerminateProcess(ps, p) ==
    IF p # 0 /\ Poll(ps, p) THEN [ps EXCEPT ![p] = "dead"] ELSE ps

\* The settle check `self._process and self._process.poll() is None` was true:
\* the process the handle names is recorded as seen alive.
Confirm(ps, p) == IF IsAlive(ps, p) THEN [ps EXCEPT ![p] = "confirmed"] ELSE ps

InitPlayer ==
    /\ procs = [i \in Pids |-> "free"]
    /\ fbprocs = [i \in FbPids |-> "free"]
    /\ process = 0
    /\ current_stream = None
    /\ status = "stopped"
    /\ lock = 0
    /\ monitor_thread = 0
    /\ running = TRUE
    /\ fallback_process = 0
    /\ fallback_image \in BOOLEAN
    /\ caller = [c \in Callers |-> IdleCaller]
    /\ mon = [m \in Monitors |-> FreeMonitor]
    /\ last = NoCall
    /\ rd = IdleReader
    /\ retained = [status |-> "stopped", stream |-> None]

Init == InitPlayer /\ budget = MaxCalls /\ history = FALSE /\ term = NoTerm /\ mq = NoMqtt /\ sig = NoSignal /\ conf = NoConfig

\* A play or stop is between its write of _current_stream and of _status.
MidTransition(cl) == \E c \in Callers : cl[c].pc \in {"p_starting", "s_status"}

\* While a status query is between its two reads: the streams the player holds
\* together with the status the query has read, outside a play/stop transition.
Observe ==
    rd' = IF rd.pc = "mid" /\ ~MidTransition(caller') /\ status' = rd.status
          THEN [rd EXCEPT !.seen = @ \cup {current_stream'}]
          ELSE rd

\* ------------------------------------------------------- fallback viewer
\* Mutant of ShowFallback: the viewer is spawned whether or not the image exists.
ShowFallbackAlways ==
    IF FreeFbs(fbprocs) # {}
    THEN /\ fbprocs' = [fbprocs EXCEPT ![NewFb(fbprocs)] = "alive"]
         /\ fallback_process' = NewFb(fbprocs)
    ELSE UNCHANGED <<fbprocs, fallback_process>>

\* _show_fallback: Popen(feh) when the image exists (fallback_image); the spawn
\* fails when no process slot is left, and the except clause absorbs that.
\* The new handle overwrites self._fallback_process whatever it held.
ShowFallback ==
    IF fallback_image /\ FreeFbs(fbprocs) # {}
    THEN /\ fbprocs' = [fbprocs EXCEPT ![NewFb(fbprocs)] = "alive"]
         /\ fallback_process' = NewFb(fbprocs)
    ELSE UNCHANGED <<fbprocs, fallback_process>>

\* _stop_fallback: terminate the viewer the handle names and clear the handle.
StopFallback ==
    IF fallback_process # 0
    THEN /\ fbprocs' = [fbprocs EXCEPT ![fallback_process] = "free"]
         /\ fallback_process' = 0
    ELSE UNCHANGED <<fbprocs, fallback_process>>

\* At the return of a call: the monitors that were started before it.
Supersede(op) ==
    [m \in Monitors |->
        IF mon[m].pc = "free" THEN mon[m]
        ELSE [mon[m] EXCEPT !.sup = IF @ = "own" THEN "no"
                                    ELSE IF op = "stop" \/ @ = "stop" THEN "stop"
                                    ELSE "play"]]

\* ------------------------------------------------------------ play(url)
\* The calling threads are interchangeable: a call is made by the first idle one.
FirstIdle(c) == \A d \in Callers : d < c => caller[d].pc # "idle"

\* Mutant of PlayEnter: the call does not wait for the lock.
PlayEnterUnlocked(c, u, via) ==
    /\ caller[c].pc = "idle"
    /\ FirstIdle(c)
    /\ budget > 0
    /\ FreeMons # {}
    /\ lock' = c
    /\ budget' = budget - 1
    /\ last' = NoCall
    /\ caller' = [caller EXCEPT ![c] = [pc |-> "p_launch", url |-> u, old |-> process,
                                        new |-> 0, pre |-> status, due |-> FALSE,
                                        via |-> via, obs |-> FALSE]]
    /\ UNCHANGED <<procs, fbprocs, process, current_stream, status, monitor_thread,
                   running, fallback_process, fallback_image, mon, retained, history, term, mq, sig, conf>>
    /\ Observe

\* play(url) is called and enters `with self._lock` (a thread blocked on the lock
\* has not begun); a monitor thread slot is free for _start_monitor.
\* old_process = self._process
\* via: the call is made directly (init_components) or by a request handler.
PlayEnter(c, u, via) ==
    /\ caller[c].pc = "idle"
    /\ FirstIdle(c)
    /\ budget > 0
    /\ lock = 0
    /\ FreeMons # {}
    /\ lock' = c
    /\ budget' = budget - 1
    /\ last' = NoCall
    /\ caller' = [caller EXCEPT ![c] = [pc |-> "p_launch", url |-> u, old |-> process,
                                        new |-> 0, pre |-> status, due |-> FALSE,
                                        via |-> via, obs |-> FALSE]]
    /\ UNCHANGED <<procs, fbprocs, process, current_stream, status, monitor_thread,
                   running, fallback_process, fallback_image, mon, retained, history, term, mq, sig, conf>>
    /\ Observe

\* stream_player.play(default_stream) in init_components
PlayBegin(c, u) == PlayEnter(c, u, "direct")

\* self._start_mpv(url): Popen raises (ok = FALSE) or self._process = new process
PlayLaunch(c, ok) ==
    /\ caller[c].pc = "p_launch"
    /\ IF ok /\ FreePids(procs) # {}
       THEN /\ process' = NewPid(procs)
            /\ caller' = [caller EXCEPT ![c].pc = "p_stream", ![c].new = NewPid(procs)]
            /\ procs' = Reap([procs EXCEPT ![NewPid(procs)] = "alive"], process', caller')
       ELSE /\ caller' = [caller EXCEPT ![c].pc = "p_exc_status"]
            /\ UNCHANGED <<procs, process>>
    /\ UNCHANGED <<fbprocs, current_stream, status, lock, monitor_thread, running,
                   fallback_process, fallback_image, mon, budget, last, retained, history, term, mq, sig, conf>>
    /\ Observe

\* self._current_stream = url
PlayStream(c) ==
    /\ caller[c].pc = "p_stream"
    /\ current_stream' = caller[c].url
    /\ caller' = [caller EXCEPT ![c].pc = "p_starting"]
    /\ UNCHANGED <<procs, fbprocs, process, status, lock, monitor_thread, running,
                   fallback_process, fallback_image, mon, budget, last, retained, history, term, mq, sig, conf>>
    /\ Observe

\* self._status = 'starting'; then time.sleep(1.0)
PlayStarting(c) ==
    /\ caller[c].pc = "p_starting"
    /\ status' = "starting"
    /\ caller' = [caller EXCEPT ![c].pc = "p_settle"]
    /\ UNCHANGED <<procs, fbprocs, process, current_stream, lock, monitor_thread,
                   running, fallback_process, fallback_image, mon, budget, last,
                   retained, history, term, mq, sig, conf>>
    /\ Observe

\* after the sleep: if self._process and self._process.poll() is None
\* (obs: the process this call launched is alive at the check)
PlaySettle(c) ==
    /\ caller[c].pc = "p_settle"
    /\ caller[c].due
    /\ caller' = [caller EXCEPT ![c].due = FALSE, ![c].obs = IsAlive(procs, caller[c].new),
                     ![c].pc =
                     IF IsAlive(procs, process) THEN "p_playing" ELSE "p_crash_status"]
    /\ procs' = Confirm(procs, process)
    /\ UNCHANGED <<fbprocs, process, current_stream, status, lock,
                   monitor_thread, running, fallback_process, fallback_image, mon,
                   budget, last, retained, history, term, mq, sig, conf>>
    /\ Observe

\* self._status = 'playing'
PlayPlaying(c) ==
    /\ caller[c].pc = "p_playing"
    /\ status' = "playing"
    /\ caller' = [caller EXCEPT ![c].pc = "p_term_old"]
    /\ UNCHANGED <<procs, fbprocs, process, current_stream, lock, monitor_thread,
                   running, fallback_process, fallback_image, mon, budget, last,
                   retained, history, term, mq, sig, conf>>
    /\ Observe

\* if old_process: self._terminate_process(old_process)
PlayTermOld(c) ==
    /\ caller[c].pc = "p_term_old"
    /\ caller' = [caller EXCEPT ![c].pc = "p_hide"]
    /\ procs' = Reap(TerminateProcess(procs, caller[c].old), process, caller')
    /\ UNCHANGED <<fbprocs, process, current_stream, status, lock, monitor_thread,
                   running, fallback_process, fallback_image, mon, budget, last,
                   retained, history, term, mq, sig, conf>>
    /\ Observe

\* self._stop_fallback()
PlayHide(c) ==
    /\ caller[c].pc = "p_hide"
    /\ StopFallback
    /\ caller' = [caller EXCEPT ![c].pc = "p_stopmon"]
    /\ UNCHANGED <<procs, process, current_stream, status, lock, monitor_thread,
                   running, fallback_image, mon, budget, last, retained, history, term, mq, sig, conf>>
    /\ Observe

\* _start_monitor -> _stop_monitor: self._running = False
PlayStopMon(c) ==
    /\ caller[c].pc = "p_stopmon"
    /\ running' = FALSE
    /\ caller' = [caller EXCEPT ![c].pc = "p_join"]
    /\ UNCHANGED <<procs, fbprocs, process, current_stream, status, lock,
                   monitor_thread, fallback_process, fallback_image, mon, budget, last,
                   retained, history, term, mq, sig, conf>>
    /\ Observe

\* join(timeout=1) returns when the thread has ended (joined), or after the
\* timeout with the thread still running.  The timeout expires on a thread that
\* sleeps through it: the reconnect delay (player.reconnect_delay_ms, 2 s) and
\* the settle sleep that follows it.  The 1 s poll sleep ends within the timeout,
\* and every other statement of the loop takes far less.
\* Then self._monitor_thread = None.
OutlastsJoin(m) == mon[m].pc \in {"m_delay", "m_settle"}

JoinReturns(c, joined) ==
    \/ monitor_thread = 0
    \/ monitor_thread # 0 /\ joined /\ mon[monitor_thread].pc = "free"
    \/ monitor_thread # 0 /\ ~joined /\ caller[c].due /\ OutlastsJoin(monitor_thread)

PlayJoin(c, joined) ==
    /\ caller[c].pc = "p_join"
    /\ JoinReturns(c, joined)
    /\ monitor_thread' = 0
    /\ caller' = [caller EXCEPT ![c].pc = "p_startmon", ![c].due = FALSE]
    /\ UNCHANGED <<procs, fbprocs, process, current_stream, status, lock, running,
                   fallback_process, fallback_image, mon, budget, last, retained, history, term, mq, sig, conf>>
    /\ Observe

\* self._running = True; self._monitor_thread = Thread(_monitor_loop); start()
\* (url: the url of the play call that starts the thread, when recorded)
PlayStartMon(c) ==
    /\ caller[c].pc = "p_startmon"
    /\ FreeMons # {}
    /\ LET m == CHOOSE i \in FreeMons : \A j \in FreeMons : i <= j IN
        /\ running' = TRUE
        /\ monitor_thread' = m
        /\ mon' = [mon EXCEPT ![m] = [pc |-> "m_loop", attempts |-> 0, sup |-> "own",
                                       due |-> FALSE, new |-> 0, at |-> -1,
                                       url |-> IF history THEN caller[c].url ELSE None,
                                       tries |-> 0]]
    /\ caller' = [caller EXCEPT ![c].pc = "p_ret_ok"]
    /\ UNCHANGED <<procs, fbprocs, process, current_stream, status, lock,
                   fallback_process, fallback_image, budget, last, retained, history, term, mq, sig, conf>>
    /\ Observe

\* else branch (mpv exited at once): self._status = 'error';
\* self._current_stream = url (the value it already holds under the lock)
PlayCrashStatus(c) ==
    /\ caller[c].pc = "p_crash_status"
    /\ status' = "error"
    /\ current_stream' = caller[c].url
    /\ caller' = [caller EXCEPT ![c].pc = "p_crash_show"]
    /\ UNCHANGED <<procs, fbprocs, process, lock, monitor_thread, running,
                   fallback_process, fallback_image, mon, budget, last, retained, history, term, mq, sig, conf>>
    /\ Observe

\* self._show_fallback()
PlayCrashShow(c) ==
    /\ caller[c].pc = "p_crash_show"
    /\ ShowFallback
    /\ caller' = [caller EXCEPT ![c].pc = "p_ret_crash"]
    /\ UNCHANGED <<procs, process, current_stream, status, lock, monitor_thread,
                   running, fallback_image, mon, budget, last, retained, history, term, mq, sig, conf>>
    /\ Observe

\* Mutant of PlayExcStatus: no except clause, the exception of Popen leaves play
\* (the with statement releases the lock).
PlayExcStatusRaises(c) ==
    /\ caller[c].pc = "p_exc_status"
    /\ lock' = 0
    /\ caller' = [caller EXCEPT ![c].pc = "p_raised"]
    /\ UNCHANGED <<procs, fbprocs, process, current_stream, status, monitor_thread,
                   running, fallback_process, fallback_image, mon, budget, last,
                   retained, history, term, mq, sig, conf>>
    /\ Observe

\* except Exception: self._status = 'error'
PlayExcStatus(c) ==
    /\ caller[c].pc = "p_exc_status"
    /\ status' = "error"
    /\ caller' = [caller EXCEPT ![c].pc = "p_exc_show"]
    /\ UNCHANGED <<procs, fbprocs, process, current_stream, lock, monitor_thread,
                   running, fallback_process, fallback_image, mon, budget, last,
                   retained, history, term, mq, sig, conf>>
    /\ Observe

\* Mutant of PlayExcShow: the except clause returns without showing the fallback.
PlayExcShowSkipped(c) ==
    /\ caller[c].pc = "p_exc_show"
    /\ caller' = [caller EXCEPT ![c].pc = "p_ret_fail"]
    /\ UNCHANGED <<procs, fbprocs, process, current_stream, status, lock,
                   monitor_thread, running, fallback_process, fallback_image, mon,
                   budget, last, retained, history, term, mq, sig, conf>>
    /\ Observe

\* except Exception: self._show_fallback()
PlayExcShow(c) ==
    /\ caller[c].pc = "p_exc_show"
    /\ ShowFallback
    /\ caller' = [caller EXCEPT ![c].pc = "p_ret_fail"]
    /\ UNCHANGED <<procs, process, current_stream, status, lock, monitor_thread,
                   running, fallback_image, mon, budget, last, retained, history, term, mq, sig, conf>>
    /\ Observe

\* After play()/stop() returns, a request handler goes on to publish_status().
\* (the signal handler goes on to sys.exit(0) when its stop() has returned)
AfterCall(via) ==
    IF via \in {"direct", "main"} THEN IdleCaller
    ELSE IF via = "signal" THEN [IdleCaller EXCEPT !.pc = "exited"]
    ELSE [IdleCaller EXCEPT !.pc = "h_publish"]

PlayResult(pc) ==
    IF pc = "p_ret_ok" THEN "play_ok" ELSE IF pc = "p_ret_crash" THEN "play_crash"
    ELSE "play_fail"

\* the with block ends: the lock is released and play returns
PlayReturn(c) ==
    /\ caller[c].pc \in {"p_ret_ok", "p_ret_crash", "p_ret_fail"}
    /\ lock' = 0
    /\ last' = [op |-> PlayResult(caller[c].pc), url |-> caller[c].url, exh |-> last.exh]
    /\ caller' = [caller EXCEPT ![c] = AfterCall(caller[c].via)]
    /\ mon' = Supersede("play")
    /\ procs' = Reap(procs, process, caller')
    /\ UNCHANGED <<fbprocs, process, current_stream, status, monitor_thread, running,
                   fallback_process, fallback_image, budget, retained, history, term, mq, sig, conf>>
    /\ Observe

\* --------------------------------------------------------------- stop()
\* stop() is called and enters `with self._lock`;
\* _stop_monitor: self._running = False
StopEnter(c, via) ==
    /\ caller[c].pc = "idle"
    /\ FirstIdle(c)
    /\ budget > 0
    /\ lock = 0
    /\ lock' = c
    /\ budget' = budget - 1
    /\ last' = NoCall
    /\ running' = FALSE
    /\ caller' = [caller EXCEPT ![c] = [IdleCaller EXCEPT !.pc = "s_join", !.pre = status,
                                                           !.via = via]]
    /\ UNCHANGED <<procs, fbprocs, process, current_stream, status, monitor_thread,
                   fallback_process, fallback_image, mon, retained, history, term, mq, sig, conf>>
    /\ Observe

\* stream_player.stop() in shutdown_components
StopBegin(c) == StopEnter(c, "direct")

\* _stop_monitor: join(timeout=1); self._monitor_thread = None
StopJoin(c, joined) ==
    /\ caller[c].pc = "s_join"
    /\ JoinReturns(c, joined)
    /\ monitor_thread' = 0
    /\ caller' = [caller EXCEPT ![c].pc = "s_term", ![c].due = FALSE]
    /\ UNCHANGED <<procs, fbprocs, process, current_stream, status, lock, running,
                   fallback_process, fallback_image, mon, budget, last, retained, history, term, mq, sig, conf>>
    /\ Observe

\* if self._process: self._terminate_process(self._process)
StopTerm(c) ==
    /\ caller[c].pc = "s_term"
    /\ caller' = [caller EXCEPT ![c].pc = IF process # 0 THEN "s_clear" ELSE "s_stream"]
    /\ procs' = Reap(TerminateProcess(procs, process), process, caller')
    /\ UNCHANGED <<fbprocs, process, current_stream, status, lock, monitor_thread,
                   running, fallback_process, fallback_image, mon, budget, last,
                   retained, history, term, mq, sig, conf>>
    /\ Observe

\* self._process = None
StopClear(c) ==
    /\ caller[c].pc = "s_clear"
    /\ process' = 0
    /\ caller' = [caller EXCEPT ![c].pc = "s_stream"]
    /\ procs' = Reap(procs, process', caller')
    /\ UNCHANGED <<fbprocs, current_stream, status, lock, monitor_thread, running,
                   fallback_process, fallback_image, mon, budget, last, retained, history, term, mq, sig, conf>>
    /\ Observe

\* self._current_stream = None
StopStream(c) ==
    /\ caller[c].pc = "s_stream"
    /\ current_stream' = None
    /\ caller' = [caller EXCEPT ![c].pc = "s_status"]
    /\ UNCHANGED <<procs, fbprocs, process, status, lock, monitor_thread, running,
                   fallback_process, fallback_image, mon, budget, last, retained, history, term, mq, sig, conf>>
    /\ Observe

\* self._status = 'stopped'
StopStatus(c) ==
    /\ caller[c].pc = "s_status"
    /\ status' = "stopped"
    /\ caller' = [caller EXCEPT ![c].pc = "s_show"]
    /\ UNCHANGED <<procs, fbprocs, process, current_stream, lock, monitor_thread,
                   running, fallback_process, fallback_image, mon, budget, last,
                   retained, history, term, mq, sig, conf>>
    /\ Observe

\* self._show_fallback()
StopShow(c) ==
    /\ caller[c].pc = "s_show"
    /\ ShowFallback
    /\ caller' = [caller EXCEPT ![c].pc = "s_ret"]
    /\ UNCHANGED <<procs, process, current_stream, status, lock, monitor_thread,
                   running, fallback_image, mon, budget, last, retained, history, term, mq, sig, conf>>
    /\ Observe

\* the with block ends: the lock is released and stop returns
StopReturn(c) ==
    /\ caller[c].pc = "s_ret"
    /\ lock' = 0
    /\ last' = [op |-> "stop", url |-> None, exh |-> last.exh]
    /\ caller' = [caller EXCEPT ![c] = AfterCall(caller[c].via)]
    /\ mon' = Supersede("stop")
    /\ UNCHANGED <<procs, fbprocs, process, current_stream, status, monitor_thread,
                   running, fallback_process, fallback_image, budget, retained, history, term, mq, sig, conf>>
    /\ Observe

\* ------------------------------------------------------- _monitor_loop
\* while self._running and self._current_stream: ... time.sleep(1)
MonLoop(m) ==
    /\ mon[m].pc = "m_loop"
    /\ mon' = [mon EXCEPT ![m] = IF running /\ current_stream # None
                                 THEN [@ EXCEPT !.pc = "m_sleep"]
                                 ELSE FreeMonitor]
    /\ UNCHANGED <<procs, fbprocs, process, current_stream, status, lock,
                   monitor_thread, running, fallback_process, fallback_image, caller,
                   budget, last, retained, history, term, mq, sig, conf>>
    /\ Observe

\* With no call in progress and status playing: the calls that may still begin.
Healthy == IF NoCallInProgress /\ status = "playing" THEN budget ELSE -1

\* after the sleep: if self._process and self._process.poll() is not None;
\* else: attempts = 0
\* (at: the exit was found during healthy playback, and when;
\*  tries: the launches this monitor made since a settle check last saw the
\*  process alive, see Tried)
MonPoll(m) ==
    /\ mon[m].pc = "m_sleep"
    /\ mon[m].due
    /\ mon' = [mon EXCEPT ![m] =
                  IF Exited(procs, process)
                  THEN [@ EXCEPT !.pc = "m_exit_code", !.due = FALSE, !.at = Healthy]
                  ELSE [@ EXCEPT !.pc = "m_loop", !.attempts = 0, !.due = FALSE,
                                 !.at = -1,
                                 !.tries = IF process # 0 /\ procs[process] = "confirmed"
                                           THEN 0 ELSE @]]
    /\ UNCHANGED <<procs, fbprocs, process, current_stream, status, lock,
                   monitor_thread, running, fallback_process, fallback_image, caller,
                   budget, last, retained, history, term, mq, sig, conf>>
    /\ Observe

\* exit_code = self._process.returncode (AttributeError on None ends the thread);
\* if attempts < max_attempts: attempts += 1
MonExitCode(m) ==
    /\ mon[m].pc = "m_exit_code"
    /\ mon' = [mon EXCEPT ![m] =
                  IF process = 0 THEN FreeMonitor
                  ELSE IF @.attempts < max_attempts
                       THEN [@ EXCEPT !.pc = "m_reconnecting", !.attempts = @ + 1]
                       ELSE [@ EXCEPT !.pc = "m_error", !.at = -1]]
    /\ UNCHANGED <<procs, fbprocs, process, current_stream, status, lock,
                   monitor_thread, running, fallback_process, fallback_image, caller,
                   budget, last, retained, history, term, mq, sig, conf>>
    /\ Observe

\* self._status = 'reconnecting'; then time.sleep(reconnect_delay)
MonReconnecting(m) ==
    /\ mon[m].pc = "m_reconnecting"
    /\ status' = "reconnecting"
    /\ mon' = [mon EXCEPT ![m].pc = "m_delay"]
    /\ UNCHANGED <<procs, fbprocs, process, current_stream, lock, monitor_thread,
                   running, fallback_process, fallback_image, caller, budget, last,
                   retained, history, term, mq, sig, conf>>
    /\ Observe

\* One more call of self._start_mpv by a monitor that made n since a settle check
\* last saw the process alive: counted up to max_attempts + 1, when recorded.
Tried(n) == IF history /\ n <= max_attempts THEN n + 1 ELSE n

\* after the sleep: self._start_mpv(self._current_stream); Popen raises on a None
\* url (TypeError) or when the spawn fails, and the except clause absorbs it
MonRelaunch(m, ok) ==
    /\ mon[m].pc = "m_delay"
    /\ mon[m].due
    /\ IF current_stream # None /\ ok /\ FreePids(procs) # {}
       THEN /\ process' = NewPid(procs)
            /\ procs' = Reap([procs EXCEPT ![NewPid(procs)] = "alive"], process', caller)
            /\ mon' = [mon EXCEPT ![m].pc = "m_settle", ![m].due = FALSE,
                                   ![m].new = NewPid(procs), ![m].at = -1,
                                   ![m].tries = Tried(@)]
       ELSE /\ mon' = [mon EXCEPT ![m].pc = "m_loop", ![m].due = FALSE, ![m].at = -1,
                                   ![m].tries = Tried(@)]
            /\ UNCHANGED <<procs, process>>
    /\ UNCHANGED <<fbprocs, current_stream, status, lock, monitor_thread, running,
                   fallback_process, fallback_image, caller, budget, last, retained, history, term, mq, sig, conf>>
    /\ Observe

\* after time.sleep(1.0): if self._process and self._process.poll() is None
\* (new: the process this monitor launched, until its settle check)
MonSettle(m) ==
    /\ mon[m].pc = "m_settle"
    /\ mon[m].due
    /\ mon' = [mon EXCEPT ![m].due = FALSE, ![m].new = 0,
                           ![m].tries = IF IsAlive(procs, process) THEN 0 ELSE @,
                           ![m].pc = IF IsAlive(procs, process) THEN "m_playing"
                                     ELSE "m_loop"]
    /\ procs' = Confirm(procs, process)
    /\ UNCHANGED <<fbprocs, process, current_stream, status, lock,
                   monitor_thread, running, fallback_process, fallback_image, caller,
                   budget, last, retained, history, term, mq, sig, conf>>
    /\ Observe

\* self._status = 'playing'; attempts = 0
MonPlaying(m) ==
    /\ mon[m].pc = "m_playing"
    /\ status' = "playing"
    /\ mon' = [mon EXCEPT ![m].pc = "m_loop", ![m].attempts = 0]
    /\ UNCHANGED <<procs, fbprocs, process, current_stream, lock, monitor_thread,
                   running, fallback_process, fallback_image, caller, budget, last,
                   retained, history, term, mq, sig, conf>>
    /\ Observe

\* else (attempts exhausted): self._status = 'error'
\* (last.exh: the exhaustions since the last call began, counted up to 2)
MonError(m) ==
    /\ mon[m].pc = "m_error"
    /\ status' = "error"
    /\ mon' = [mon EXCEPT ![m].pc = "m_show"]
    /\ last' = [last EXCEPT !.exh = IF @ < 2 THEN @ + 1 ELSE @]
    /\ UNCHANGED <<procs, fbprocs, process, current_stream, lock, monitor_thread,
                   running, fallback_process, fallback_image, caller, budget,
                   retained, history, term, mq, sig, conf>>
    /\ Observe

\* self._show_fallback(); break
MonShow(m) ==
    /\ mon[m].pc = "m_show"
    /\ ShowFallback
    /\ mon' = [mon EXCEPT ![m] = FreeMonitor]
    /\ UNCHANGED <<procs, process, current_stream, status, lock, monitor_thread,
                   running, fallback_image, caller, budget, last, retained, history, term, mq, sig, conf>>
    /\ Observe

\* ------------------------------------------ _terminate_process in detail
\* The frame of every step of this section.
TermFrame ==
    UNCHANGED <<procs, fbprocs, process, current_stream, status, lock, monitor_thread,
                running, fallback_process, fallback_image, caller, mon, budget, last,
                rd, retained, history, mq, sig, conf>>

\* _terminate_process(process) is called
TermCall ==
    /\ term.pc = "idle"
    /\ term.calls < MaxTermCalls
    /\ term' = [term EXCEPT !.pc = "t_poll", !.calls = @ + 1, !.raised = FALSE]
    /\ TermFrame

\* Mutant of TermPoll: no liveness check, any handle given is signalled.
TermPollUnchecked ==
    /\ term.pc = "t_poll"
    /\ term' = IF term.given
               THEN [term EXCEPT !.pc = "t_sigterm"]
               ELSE [term EXCEPT !.pc = "idle"]
    /\ TermFrame

\* if process and process.poll() is None: poll() collects the exit status of a
\* process that has exited; otherwise the call returns
TermPoll ==
    /\ term.pc = "t_poll"
    /\ term' = IF term.given /\ term.state = "running"
               THEN [term EXCEPT !.pc = "t_sigterm"]
               ELSE [term EXCEPT !.pc = "idle",
                                 !.state = IF term.given THEN "reaped" ELSE @]
    /\ TermFrame

\* os.killpg(os.getpgid(process.pid), sig): getpgid raises ProcessLookupError
\* when the pid is gone; a zombie still takes the signal.
PidExists == term.state \in {"running", "zombie"}

\* os.killpg(..., SIGTERM); an exception goes to the outer except clause, which
\* logs it, and the call returns
TermSigterm ==
    /\ term.pc = "t_sigterm"
    /\ term' = IF PidExists
               THEN [term EXCEPT !.pc = "t_wait", !.sigs = Append(@, "TERM")]
               ELSE [term EXCEPT !.pc = "idle", !.raised = TRUE]
    /\ TermFrame

\* Mutant of TermWait: the call escalates without looking at the process.
TermWaitEscalates ==
    /\ term.pc = "t_wait"
    /\ term' = [term EXCEPT !.pc = "t_sigkill"]
    /\ TermFrame

\* process.wait(timeout=2): returns when the process has exited (collecting its
\* exit status), raises TimeoutExpired after 2 s with the process running
TermWait ==
    /\ term.pc = "t_wait"
    /\ term' = IF term.state = "running"
               THEN [term EXCEPT !.pc = "t_sigkill", !.waits = @ + 1]
               ELSE [term EXCEPT !.pc = "idle", !.state = "reaped"]
    /\ TermFrame

\* Mutant of TermSigkill: no SIGKILL is sent.
TermSigkillSkipped ==
    /\ term.pc = "t_sigkill"
    /\ term' = [term EXCEPT !.pc = "t_waitkill"]
    /\ TermFrame

\* except TimeoutExpired: os.killpg(..., SIGKILL): the process is killed (a
\* SIGKILL to an existing process always succeeds); an exception goes to the
\* outer except clause and the call returns
TermSigkill ==
    /\ term.pc = "t_sigkill"
    /\ term' = IF PidExists
               THEN [term EXCEPT !.pc = "t_waitkill", !.sigs = Append(@, "KILL"),
                                 !.state = "zombie",
                                 !.exited_at = IF term.state = "running"
                                               THEN "t_sigkill" ELSE @]
               ELSE [term EXCEPT !.pc = "idle", !.raised = TRUE]
    /\ TermFrame

\* process.wait(): blocks until the process has exited
TermWaitKill ==
    /\ term.pc = "t_waitkill"
    /\ term.state # "running"
    /\ term' = [term EXCEPT !.pc = "idle", !.state = "reaped"]
    /\ TermFrame

\* The process exits: by itself, or on the SIGTERM it was sent.
TermProcExit ==
    /\ term.state = "running"
    /\ term' = [term EXCEPT !.state = "zombie", !.exited_at = term.pc]
    /\ TermFrame

\* Another thread collects the exit status: the monitor's self._process.poll()
TermReaped ==
    /\ term.state = "zombie"
    /\ term' = [term EXCEPT !.state = "reaped"]
    /\ TermFrame

\* ------------------------------------------------------------ MQTTClient
max_reconnect_delay == 60   \* self._max_reconnect_delay

Min(a, b) == IF a < b THEN a ELSE b

\* Mutant of Backoff: the delay is not capped.
BackoffUncapped(n) == 5 * 2 ^ (n - 1)

\* delay = min(5 * (2 ** (self._reconnect_count - 1)), self._max_reconnect_delay)
Backoff(n) == Min(5 * 2 ^ (n - 1), max_reconnect_delay)

\* The relaunch delay of _monitor_loop at the given attempt, in ms: read from the
\* configuration once, before the loop, and slept at every attempt.
reconnect_delay_ms == 2000
ReconnectDelay(attempts) == reconnect_delay_ms

\* paho client objects: the one self.client names and the one it replaces
Clients == {1, 2}
NewClient(c) == IF c = 1 THEN 2 ELSE 1

MqFrame ==
    UNCHANGED <<procs, fbprocs, process, current_stream, status, lock, monitor_thread,
                running, fallback_process, fallback_image, caller, mon, budget, last,
                rd, retained, history, term, sig, conf>>

\* The network thread of client object c is free to deliver an event.
Delivers(c) == c \in mq.loops /\ mq.cb.pc = "idle"

\* _on_connect(rc): rc = 0: _connected = True, _reconnect_count = 0;
\* otherwise _connected = False
MqOnConnect(c, rc) ==
    /\ Delivers(c)
    /\ ~mq.connected
    /\ mq' = IF rc = 0
             THEN [mq EXCEPT !.connected = TRUE, !.count = 0, !.fresh = TRUE]
             ELSE [mq EXCEPT !.connected = FALSE]
    /\ MqFrame

\* _on_disconnect: _connected = False; if self._running: _reconnect_count += 1,
\* delay = ..., then time.sleep(delay)
MqOnDisconnect(c) ==
    /\ Delivers(c)
    /\ mq.count < MaxReconnects
    /\ mq' = IF mq.running
             THEN [mq EXCEPT !.connected = FALSE, !.count = @ + 1, !.fresh = FALSE,
                             !.cb = [pc |-> "sleep", of |-> c,
                                     delay |-> Backoff(mq.count + 1)]]
             ELSE [mq EXCEPT !.connected = FALSE, !.fresh = FALSE]
    /\ MqFrame

\* after the sleep: if self._running: self._connect()
MqWake ==
    /\ mq.cb.pc = "sleep"
    /\ mq' = IF mq.running
             THEN [mq EXCEPT !.cb.pc = "connect_new"]
             ELSE [mq EXCEPT !.cb = NoMqtt.cb]
    /\ MqFrame

\* _connect, first part: the old client is stopped and disconnected,
\* self.client = mqtt.Client(...), callbacks and last will are set
MqConnectNew ==
    /\ mq.cb.pc = "connect_new"
    /\ mq.conns < MaxConns
    /\ mq' = [mq EXCEPT !.loops = @ \ {mq.client}, !.client = NewClient(mq.cb.of),
                        !.cb.pc = "connect_start"]
    /\ MqFrame

\* _connect, last part: self.client.connect_async(...); self.client.loop_start();
\* the callback returns
MqConnectStart ==
    /\ mq.cb.pc = "connect_start"
    /\ mq' = [mq EXCEPT !.loops = @ \cup {mq.client}, !.conns = @ + 1,
                        !.cb = NoMqtt.cb]
    /\ MqFrame

\* stop(): self._running = False
MqStop ==
    /\ mq.st = "none"
    /\ mq' = [mq EXCEPT !.running = FALSE, !.st = "s_loop"]
    /\ MqFrame

\* if self.client: self.client.loop_stop(): joins the network thread of that
\* client, which ends when the callback it is in returns; returns at once for a
\* client whose loop was not started
MqStopLoop ==
    /\ mq.st = "s_loop"
    /\ ~(mq.client \in mq.loops /\ mq.cb.pc # "idle" /\ mq.cb.of = mq.client)
    /\ mq' = [mq EXCEPT !.loops = @ \ {mq.client},
                        !.st = IF mq.client = 0 THEN "done" ELSE "s_disc"]
    /\ MqFrame

\* self.client.disconnect(); stop returns
MqStopDisconnect ==
    /\ mq.st = "s_disc"
    /\ mq' = [mq EXCEPT !.connected = FALSE, !.st = "done"]
    /\ MqFrame

\* -------------------------------------------------- shutdown signal handler
\* The frame of the main thread inside play(): it does not run while the signal
\* handler, which runs on the same thread, has not returned.
Suspended(c) == sig.pc # "none" /\ caller[c].via = "main" /\ caller[c].pc # "idle"

\* stream_player.play(default_stream) in init_components, on the main thread
MainPlay(c, u) ==
    /\ sig.pc = "none"
    /\ \A d \in Callers : caller[d].via # "main" \/ caller[d].pc = "idle"
    /\ PlayEnter(c, u, "main")

\* SIGINT/SIGTERM: signal_handler starts on the main thread;
\* shutdown_components calls stream_player.stop(), which waits for the lock
Signal ==
    /\ sig.pc = "none"
    /\ sig' = [pc |-> "waiting"]
    /\ UNCHANGED <<procs, fbprocs, process, current_stream, status, lock, monitor_thread,
                   running, fallback_process, fallback_image, caller, mon, budget, last,
                   rd, retained, history, term, mq, conf>>

\* the handler's stop() enters `with self._lock`; _stop_monitor: _running = False
SigStop(c) ==
    /\ sig.pc = "waiting"
    /\ caller[c].pc = "idle"
    /\ FirstIdle(c)
    /\ lock = 0
    /\ sig' = [pc |-> "stopping"]
    /\ lock' = c
    /\ last' = NoCall
    /\ running' = FALSE
    /\ caller' = [caller EXCEPT ![c] = [IdleCaller EXCEPT !.pc = "s_join", !.pre = status,
                                                           !.via = "signal"]]
    /\ UNCHANGED <<procs, fbprocs, process, current_stream, status, monitor_thread,
                   fallback_process, fallback_image, mon, budget, rd, retained, history,
                   term, mq, conf>>

\* ------------------------------------------------------------ /api/config
\* config_manager.get_all(): self.config.copy(), a new dict of sections whose
\* entries refer to the same nested dict objects as self.config
GetAll == conf.top

\* '***' if config[s]['password'] else ''
Masked(pw) == IF pw # "" THEN Mask ELSE ""

\* GET /api/config: config = get_all(); config[s]['password'] is assigned the
\* mask for both sections; jsonify(config)
GetConfig ==
    /\ conf.reqs < MaxRequests
    /\ LET config == GetAll
       IN  conf' = [conf EXCEPT
                      !.heap = [i \in DOMAIN conf.heap |->
                                  IF i \in {config[s] : s \in Sections}
                                  THEN [conf.heap[i] EXCEPT !.password = Masked(@)]
                                  ELSE conf.heap[i]],
                      !.reqs = @ + 1]
    /\ UNCHANGED <<procs, fbprocs, process, current_stream, status, lock, monitor_thread,
                   running, fallback_process, fallback_image, caller, mon, budget, last,
                   rd, retained, history, term, mq, sig>>

\* _deep_update of one nested dict: every key of the update is assigned
\* (None: the key is absent from the update)
DeepUpdate(base, updates) ==
    [k \in DOMAIN base |-> IF updates[k] # None THEN updates[k] ELSE base[k]]

\* POST /api/config: a posted password equal to the mask is replaced by the
\* current one; config_manager.update; save(); mqtt_client.reconnect()
PostConfig(body) ==
    /\ conf.reqs < MaxRequests
    /\ LET current == GetAll
           new_config == [s \in Sections |->
                            IF body[s].password = Mask
                            THEN [body[s] EXCEPT !.password = conf.heap[current[s]].password]
                            ELSE body[s]]
           updated == [i \in DOMAIN conf.heap |->
                         LET s == CHOOSE x \in Sections : conf.top[x] = i
                         IN  DeepUpdate(conf.heap[i], new_config[s])]
       IN  conf' = [conf EXCEPT !.heap = updated,
                                !.file = [s \in Sections |-> updated[conf.top[s]]],
                                !.reqs = @ + 1]
    /\ mq' = [mq EXCEPT !.client = NewClient(@), !.loops = {NewClient(mq.client)},
                        !.conns = @ + 1]
    /\ UNCHANGED <<procs, fbprocs, process, current_stream, status, lock, monitor_thread,
                   running, fallback_process, fallback_image, caller, mon, budget, last,
                   rd, retained, history, term, sig>>

\* ---------------------------------------------------------- environment
\* An mpv process exits by itself (stream error, crash, end of stream).
ProcExit(p) ==
    /\ Poll(procs, p)
    /\ procs' = Reap([procs EXCEPT ![p] = "dead"], process, caller)
    /\ UNCHANGED <<fbprocs, process, current_stream, status, lock, monitor_thread,
                   running, fallback_process, fallback_image, caller, mon, budget, last,
                   retained, history, term, mq, sig, conf>>
    /\ Observe

\* Time passes: the sleeps and the join timeout in progress come due.  A thread
\* between two statements that do not block does not stay there while a sleep of
\* a second or more elapses, so time passes only when every thread is idle,
\* sleeping, joining or waiting for a process to end.
CallerWaits(c) ==
    caller[c].pc \in {"idle", "p_settle", "p_join", "s_join", "p_term_old", "s_term"}
CallerSleeps(c) == caller[c].pc \in {"p_settle", "p_join", "s_join"}
MonSleeps(m) == mon[m].pc \in {"m_sleep", "m_delay", "m_settle"}

Tick ==
    /\ \A c \in Callers : CallerWaits(c)
    /\ \A m \in Monitors : mon[m].pc = "free" \/ MonSleeps(m)
    /\ rd.pc = "idle"
    /\ \/ \E c \in Callers : CallerSleeps(c) /\ ~caller[c].due
       \/ \E m \in Monitors : MonSleeps(m) /\ ~mon[m].due
    /\ caller' = [c \in Callers |->
                    IF CallerSleeps(c) THEN [caller[c] EXCEPT !.due = TRUE] ELSE caller[c]]
    /\ mon' = [m \in Monitors |->
                 IF MonSleeps(m) THEN [mon[m] EXCEPT !.due = TRUE] ELSE mon[m]]
    /\ UNCHANGED <<procs, fbprocs, process, current_stream, status, lock,
                   monitor_thread, running, fallback_process, fallback_image, budget,
                   last, retained, history, term, mq, sig, conf>>
    /\ Observe

\* ------------------------------------------------- GET /api/status reader
\* stream_player.get_status()
ReadStatus ==
    /\ rd.pc = "idle"
    /\ rd' = [pc |-> "mid", status |-> status, stream |-> None,
              seen |-> IF MidTransition(caller) THEN {} ELSE {current_stream}]
    /\ UNCHANGED <<procs, fbprocs, process, current_stream, status, lock,
                   monitor_thread, running, fallback_process, fallback_image, caller,
                   mon, budget, last, retained, history, term, mq, sig, conf>>

\* stream_player.get_current_stream(); the response is built
ReadStream ==
    /\ rd.pc = "mid"
    /\ rd' = [rd EXCEPT !.pc = "done", !.stream = current_stream]
    /\ UNCHANGED <<procs, fbprocs, process, current_stream, status, lock,
                   monitor_thread, running, fallback_process, fallback_image, caller,
                   mon, budget, last, retained, history, term, mq, sig, conf>>

\* the request ends
ReadDone ==
    /\ rd.pc = "done"
    /\ rd' = IdleReader
    /\ UNCHANGED <<procs, fbprocs, process, current_stream, status, lock,
                   monitor_thread, running, fallback_process, fallback_image, caller,
                   mon, budget, last, retained, history, term, mq, sig, conf>>

\* ------------------------------------- request handlers (HTTP and MQTT)
\* Python truthiness of a url or id: None and '' are false.
Empty == ""

\* Mutant of Falsy: only None counts as no url.
FalsyNoneOnly(u) == u = None

\* if not url / if url
Falsy(u) == u \in {None, Empty}

\* streams.custom_streams (an entry may carry no url) and the UniFi cameras
\* (rtsp_url stays None until a stream was found for the camera)
StreamIds == {"s1", "s0"}
StreamUrl(id) == IF id = "s1" THEN "a" ELSE Empty
CameraIds == {"c1", "c0"}
RtspUrl(id) == IF id = "c1" THEN "b" ELSE None

\* request bodies of POST /api/play and payloads of <topic>/switch; unifi: a
\* UniFi client is configured
HttpRequests == [url : {None, Empty, "a"}, stream_id : {None, "s1", "s0", "c1", "sx"},
                 unifi : BOOLEAN]
MqttRequests == [url : {None, Empty, "b"}, camera_id : {None, "c1", "c0", "cx"},
                 stream_id : {None, "s1", "sx"}, unifi : BOOLEAN]

\* play_stream: url = data.get('url'); a stream_id replaces it by the url of the
\* custom stream, else of the camera, with that id
ResolveHttp(r) ==
    IF Falsy(r.stream_id) THEN r.url
    ELSE IF r.stream_id \in StreamIds THEN StreamUrl(r.stream_id)
    ELSE IF r.unifi /\ r.stream_id \in CameraIds THEN RtspUrl(r.stream_id)
    ELSE r.url

\* _handle_switch: a camera_id is resolved by the UniFi client (return when there
\* is no client or no url), else a known stream_id replaces the url
ResolveMqtt(r) ==
    IF ~Falsy(r.camera_id)
    THEN IF r.unifi /\ r.camera_id \in CameraIds /\ ~Falsy(RtspUrl(r.camera_id))
         THEN RtspUrl(r.camera_id)
         ELSE None
    ELSE IF ~Falsy(r.stream_id) /\ r.stream_id \in StreamIds THEN StreamUrl(r.stream_id)
    ELSE r.url

\* The handler answers without calling play (HTTP 400, or a log line).
Reject(c) ==
    /\ caller[c].pc = "idle"
    /\ FirstIdle(c)
    /\ budget > 0
    /\ budget' = budget - 1
    /\ caller' = [caller EXCEPT ![c].pc = "h_rejected"]
    /\ UNCHANGED <<procs, fbprocs, process, current_stream, status, lock,
                   monitor_thread, running, fallback_process, fallback_image, mon,
                   last, retained, history, term, mq, sig, conf>>
    /\ Observe

\* POST /api/play: if not url: 400; else stream_player.play(url)
HttpPlay(c, r) ==
    IF Falsy(ResolveHttp(r)) THEN Reject(c) ELSE PlayEnter(c, ResolveHttp(r), "handler")

\* <topic>/switch: if url: self.player.play(url)
MqttSwitch(c, r) ==
    IF Falsy(ResolveMqtt(r)) THEN Reject(c) ELSE PlayEnter(c, ResolveMqtt(r), "handler")

\* POST /api/stop and <topic>/stop: stream_player.stop()
HandleStop(c) == StopEnter(c, "handler")

\* the rejected request ends
HandlerReturn(c) ==
    /\ caller[c].pc = "h_rejected"
    /\ caller' = [caller EXCEPT ![c] = IdleCaller]
    /\ UNCHANGED <<procs, fbprocs, process, current_stream, status, lock,
                   monitor_thread, running, fallback_process, fallback_image, mon,
                   budget, last, retained, history, term, mq, sig, conf>>
    /\ Observe

\* mqtt_client.publish_status() after play()/stop() returned: the retained
\* message carries get_status() and get_current_stream(); the request ends
PublishStatus(c) ==
    /\ caller[c].pc = "h_publish"
    /\ retained' = [status |-> status, stream |-> current_stream]
    /\ caller' = [caller EXCEPT ![c] = IdleCaller]
    /\ UNCHANGED <<procs, fbprocs, process, current_stream, status, lock,
                   monitor_thread, running, fallback_process, fallback_image, mon,
                   budget, last, history, term, mq, sig, conf>>
    /\ Observe

\* ------------------------------------------------------- specifications
\* The steps of the calls in progress, of the monitors and of the environment.
PlayerStep ==
    \/ \E c \in Callers, ok \in BOOLEAN : PlayLaunch(c, ok)
    \/ \E c \in Callers : PlayStream(c)
    \/ \E c \in Callers : PlayStarting(c)
    \/ \E c \in Callers : PlaySettle(c)
    \/ \E c \in Callers : PlayPlaying(c)
    \/ \E c \in Callers : PlayTermOld(c)
    \/ \E c \in Callers : PlayHide(c)
    \/ \E c \in Callers : PlayStopMon(c)
    \/ \E c \in Callers, joined \in BOOLEAN : PlayJoin(c, joined)
    \/ \E c \in Callers : PlayStartMon(c)
    \/ \E c \in Callers : PlayCrashStatus(c)
    \/ \E c \in Callers : PlayCrashShow(c)
    \/ \E c \in Callers : PlayExcStatus(c)
    \/ \E c \in Callers : PlayExcShow(c)
    \/ \E c \in Callers : PlayReturn(c)
    \/ \E c \in Callers, joined \in BOOLEAN : StopJoin(c, joined)
    \/ \E c \in Callers : StopTerm(c)
    \/ \E c \in Callers : StopClear(c)
    \/ \E c \in Callers : StopStream(c)
    \/ \E c \in Callers : StopStatus(c)
    \/ \E c \in Callers : StopShow(c)
    \/ \E c \in Callers : StopReturn(c)
    \/ \E m \in Monitors : MonLoop(m)
    \/ \E m \in Monitors : MonPoll(m)
    \/ \E m \in Monitors : MonExitCode(m)
    \/ \E m \in Monitors : MonReconnecting(m)
    \/ \E m \in Monitors, ok \in BOOLEAN : MonRelaunch(m, ok)
    \/ \E m \in Monitors : MonSettle(m)
    \/ \E m \in Monitors : MonPlaying(m)
    \/ \E m \in Monitors : MonError(m)
    \/ \E m \in Monitors : MonShow(m)
    \/ \E p \in Pids : ProcExit(p)
    \/ Tick

\* play() and stop() called directly
Next ==
    \/ \E c \in Callers, u \in Urls : PlayBegin(c, u)
    \/ \E c \in Callers : StopBegin(c)
    \/ PlayerStep

Spec == Init /\ [][Next]_vars

ReaderStep == ReadStatus \/ ReadStream \/ ReadDone

NextStatus == Next \/ ReaderStep

InitStatus == InitPlayer /\ budget = MaxStatusCalls /\ history = FALSE /\ term = NoTerm /\ mq = NoMqtt /\ sig = NoSignal /\ conf = NoConfig

SpecStatus == InitStatus /\ [][NextStatus]_vars

\* The steps of thread c inside play()/stop(), and of monitor thread m.
CallerStep(c) ==
    \/ \E ok \in BOOLEAN : PlayLaunch(c, ok)
    \/ PlayStream(c) \/ PlayStarting(c) \/ PlaySettle(c) \/ PlayPlaying(c)
    \/ PlayTermOld(c) \/ PlayHide(c) \/ PlayStopMon(c)
    \/ \E joined \in BOOLEAN : PlayJoin(c, joined)
    \/ PlayStartMon(c) \/ PlayCrashStatus(c) \/ PlayCrashShow(c)
    \/ PlayExcStatus(c) \/ PlayExcShow(c) \/ PlayReturn(c)
    \/ \E joined \in BOOLEAN : StopJoin(c, joined)
    \/ StopTerm(c) \/ StopClear(c) \/ StopStream(c) \/ StopStatus(c)
    \/ StopShow(c) \/ StopReturn(c)

MonitorStep(m) ==
    \/ MonLoop(m) \/ MonPoll(m) \/ MonExitCode(m) \/ MonReconnecting(m)
    \/ \E ok \in BOOLEAN : MonRelaunch(m, ok)
    \/ MonSettle(m) \/ MonPlaying(m) \/ MonError(m) \/ MonShow(m)

\* Every thread that can run is scheduled, and sleeps and timeouts elapse.
Fairness ==
    /\ \A c \in Callers : WF_vars(CallerStep(c))
    /\ \A m \in Monitors : WF_vars(MonitorStep(m))
    /\ WF_vars(Tick)

InitLive == InitPlayer /\ budget = MaxLiveCalls /\ history = FALSE /\ term = NoTerm /\ mq = NoMqtt /\ sig = NoSignal /\ conf = NoConfig

SpecLive == InitLive /\ [][Next]_vars /\ Fairness

\* play() and stop() called by the HTTP and MQTT request handlers
NextHandlers ==
    \/ \E c \in Callers, r \in HttpRequests : HttpPlay(c, r)
    \/ \E c \in Callers, r \in MqttRequests : MqttSwitch(c, r)
    \/ \E c \in Callers : HandleStop(c)
    \/ \E c \in Callers : HandlerReturn(c)
    \/ \E c \in Callers : PublishStatus(c)
    \/ PlayerStep

InitHandlers == InitPlayer /\ budget = MaxHandlerCalls /\ history = FALSE /\ term = NoTerm /\ mq = NoMqtt /\ sig = NoSignal /\ conf = NoConfig

SpecHandlers == InitHandlers /\ [][NextHandlers]_vars

\* play() and stop() called directly, the monitors recording their launch history
InitMonitors == InitPlayer /\ budget = MaxMonitorCalls /\ history = TRUE /\ term = NoTerm /\ mq = NoMqtt /\ sig = NoSignal /\ conf = NoConfig

SpecMonitors == InitMonitors /\ [][Next]_vars

\* _terminate_process called on one handle: None, or a Popen whose process is
\* running or has exited
TerminatorStep ==
    TermPoll \/ TermSigterm \/ TermWait \/ TermSigkill \/ TermWaitKill

NextTerminate == TermCall \/ TerminatorStep \/ TermProcExit \/ TermReaped

InitTerminate ==
    /\ InitPlayer
    /\ budget = 0
    /\ history = FALSE
    /\ mq = NoMqtt /\ sig = NoSignal /\ conf = NoConfig
    /\ \E g \in BOOLEAN, s \in {"running", "zombie", "reaped"} :
          /\ ~g => s = "reaped"
          /\ term = [NoTerm EXCEPT !.given = g, !.state = s]

\* The thread inside the call is scheduled, and the wait timeout elapses.
SpecTerminate == InitTerminate /\ [][NextTerminate]_vars /\ WF_vars(TerminatorStep)

\* The MQTT client after start(): running, its first client object connecting
NextMqtt ==
    \/ \E c \in Clients, rc \in {0, 5} : MqOnConnect(c, rc)
    \/ \E c \in Clients : MqOnDisconnect(c)
    \/ MqWake \/ MqConnectNew \/ MqConnectStart
    \/ MqStop \/ MqStopLoop \/ MqStopDisconnect

InitMqtt ==
    /\ InitPlayer
    /\ budget = 0
    /\ history = FALSE
    /\ term = NoTerm
    /\ mq = [NoMqtt EXCEPT !.running = TRUE, !.client = 1, !.loops = {1}, !.conns = 1]
    /\ sig = NoSignal
    /\ conf = NoConfig

SpecMqtt == InitMqtt /\ [][NextMqtt]_vars

\* The start-up play on the main thread, calls by other threads, and a shutdown
\* signal handled on the main thread
RunStep == PlayerStep /\ \A c \in Callers : Suspended(c) => caller'[c].pc = caller[c].pc

NextSignal ==
    \/ \E c \in Callers, u \in Urls : MainPlay(c, u)
    \/ \E c \in Callers, u \in Urls : PlayBegin(c, u)
    \/ \E c \in Callers : StopBegin(c)
    \/ Signal
    \/ \E c \in Callers : SigStop(c)
    \/ RunStep

InitSignal ==
    /\ InitPlayer
    /\ budget = MaxSignalCalls
    /\ history = FALSE
    /\ term = NoTerm
    /\ mq = NoMqtt
    /\ sig = NoSignal
    /\ conf = NoConfig

\* Every thread that can run is scheduled, unless it is the frame the signal
\* handler interrupted; a free lock is given to the waiting handler.
FairnessSignal ==
    /\ \A c \in Callers : WF_vars(~Suspended(c) /\ CallerStep(c))
    /\ \A m \in Monitors : WF_vars(MonitorStep(m))
    /\ WF_vars(Tick)
    /\ WF_vars(\E c \in Callers : SigStop(c))

SpecSignal == InitSignal /\ [][NextSignal]_vars /\ FairnessSignal

\* GET and POST /api/config; the posted passwords are the mask
Secrets == {"", "s1", "s2"}
MaskedBodies == [Sections -> [username : {None, "u1"}, password : {Mask}]]

NextConfig ==
    \/ GetConfig
    \/ \E body \in MaskedBodies : PostConfig(body)

InitConfig ==
    /\ InitPlayer
    /\ budget = 0
    /\ history = FALSE
    /\ term = NoTerm
    /\ mq = NoMqtt
    /\ sig = NoSignal
    /\ \E x, y \in Secrets :
          conf = [NoConfig EXCEPT !.heap = <<[username |-> "u0", password |-> x],
                                             [username |-> "u0", password |-> y]>>,
                                  !.file = [mqtt |-> [username |-> "u0", password |-> x],
                                            unifi_protect |-> [username |-> "u0",
                                                               password |-> y]],
                                  !.orig = [mqtt |-> x, unifi_protect |-> y]]

SpecConfig == InitConfig /\ [][NextConfig]_vars

\* ================================================================ claims
Returning == {"p_ret_ok", "p_ret_crash", "p_ret_fail"}
\* Monitor m takes the step.
MonStep(m) == mon'[m].pc # mon[m].pc

\* C1 (single owner): once every play/stop call has returned and the monitors
\* are back in their poll sleep (or ended), at most one mpv process is alive.
C1_SingleOwner ==
    (NoCallInProgress /\ \A m \in Monitors : mon[m].pc \in {"free", "m_sleep"})
        => Cardinality(AliveProcs) <= 1

\* C2 (seamless handover): when play(b) was called in status playing and reached
\* the liveness check, then at its return the status is playing or error, the
\* current stream is b, and the outgoing process (old_process) is not alive.
C2_SeamlessHandover ==
    \A c \in Callers :
        (caller[c].pc \in {"p_ret_ok", "p_ret_crash"} /\ caller[c].pre = "playing")
            => /\ status \in {"playing", "error"}
               /\ current_stream = caller[c].url
               /\ ~IsAlive(procs, caller[c].old)

\* C3 (fallback exclusivity): with no call in progress, no feh viewer is alive
\* while the status is playing.
C3_FallbackExclusivity ==
    (NoCallInProgress /\ status = "playing") => AliveFbs = {}

\* C4 (generation invalidation): a monitor started before a play()/stop() call
\* that has returned launches nothing, leaves self._process alone and writes no
\* status.
C4_GenerationInvalidation ==
    [][\A m \in Monitors :
          (mon[m].sup \in {"play", "stop"} /\ MonStep(m))
              => (process' = process /\ status' = status)]_vars

\* C5: a monitor that was running when a stop() returned launches no mpv process.
C5_NoRelaunchAfterStop ==
    [][\A m \in Monitors :
          (mon[m].sup = "stop" /\ MonStep(m))
              => (process' = process /\ AliveProcs' \subseteq AliveProcs)]_vars

\* C6: from the return of stop() until the next call begins, the status is
\* stopped and the current stream is None.
C6_StopLandsInStopped ==
    last.op = "stop" => (status = "stopped" /\ current_stream = None)

\* C7 (atomic snapshot): the (status, current_stream) pair a status query returns
\* was held by the player at one instant of the query, outside a transition.
C7_AtomicSnapshot ==
    rd.pc = "done" => rd.stream \in rd.seen

\* C8: during a play(url) begun in status stopped whose own process is alive, the
\* status is stopped, starting or playing, and at its return the status is
\* playing and the current stream is url.
C8_PlayFromStopped ==
    \A c \in Callers :
        (caller[c].pre = "stopped" /\ IsAlive(procs, caller[c].new))
            => /\ status \in {"stopped", "starting", "playing"}
               /\ caller[c].pc \in Returning
                    => /\ caller[c].pc = "p_ret_ok"
                       /\ status = "playing"
                       /\ current_stream = caller[c].url

\* C9 (immediate crash): from the return of a play(url) whose process had exited
\* at the liveness check until the next call begins, the status is error and the
\* current stream is url.
C9_ImmediateCrash ==
    last.op = "play_crash" => (status = "error" /\ current_stream = last.url)

\* C10 (launch failure): when Popen raises in play(url) the call writes status
\* error, calls _show_fallback (a viewer is spawned when the image exists and a
\* process slot is left) and returns; none of its steps writes self._process or
\* self._monitor_thread or starts a monitor thread.
C10_Frame(c) ==
    /\ process' = process
    /\ monitor_thread' = monitor_thread
    /\ \A m \in Monitors : mon[m].pc = "free" => mon'[m].pc = "free"

C10_LaunchFailure ==
    [][\A c \in Callers :
          /\ (caller[c].pc = "p_launch" /\ caller'[c].pc = "p_exc_status")
                => (C10_Frame(c) /\ procs' = procs)
          /\ (caller[c].pc = "p_exc_status" /\ caller'[c] # caller[c])
                => (C10_Frame(c) /\ status' = "error" /\ caller'[c].pc = "p_exc_show")
          /\ (caller[c].pc = "p_exc_show" /\ caller'[c] # caller[c])
                => /\ C10_Frame(c)
                   /\ caller'[c].pc = "p_ret_fail"
                   /\ (fallback_image /\ FreeFbs(fbprocs) # {})
                        => (fallback_process' \in FreeFbs(fbprocs)
                            /\ fbprocs'[fallback_process'] = "alive")
          /\ (caller[c].pc = "p_ret_fail" /\ caller'[c] # caller[c])
                => (C10_Frame(c) /\ caller'[c].pc = "idle" /\ lock' = 0)
          /\ (caller'[c].pc \in {"p_exc_status", "p_exc_show", "p_ret_fail"}
              /\ caller[c].pc # caller'[c].pc)
                => caller[c].pc \in {"p_launch", "p_exc_status", "p_exc_show"}]_vars

\* C10 witness: a play whose spawn failed is about to return: the earlier stream's
\* process is still the owned handle and alive, and the fallback viewer is up.
C10_Witness ==
    \E c \in Callers :
        /\ caller[c].pc = "p_ret_fail"
        /\ status = "error"
        /\ caller[c].old # 0
        /\ process = caller[c].old
        /\ IsAlive(procs, process)
        /\ fallback_process # 0
        /\ fbprocs[fallback_process] = "alive"

\* The non-empty urls a request names: its url, the url of the custom stream and
\* of the camera its ids name.
NamedUrls(r, ids) ==
    {u \in {r.url} \cup {StreamUrl(i) : i \in ids \cap StreamIds}
                   \cup {RtspUrl(i) : i \in IF r.unifi THEN ids \cap CameraIds ELSE {}} :
        u \notin {None, Empty}}
Rejected(c) ==
    /\ caller'[c].pc = "h_rejected"
    /\ UNCHANGED <<status, current_stream, process, procs, fallback_process, fbprocs,
                   lock, monitor_thread>>

\* C11 (invalid URL): a POST /api/play or MQTT switch request that names no
\* non-empty url (no url, and no stream or camera id that resolves to one) is
\* answered without calling play and leaves status, current_stream, the player
\* process and the fallback process unchanged.
C11_InvalidUrl ==
    [][\A c \in Callers :
          /\ \A r \in HttpRequests :
                (HttpPlay(c, r) /\ NamedUrls(r, {r.stream_id}) = {}) => Rejected(c)
          /\ \A r \in MqttRequests :
                (MqttSwitch(c, r) /\ NamedUrls(r, {r.camera_id, r.stream_id}) = {})
                    => Rejected(c)]_vars

\* C11 witness: a request was rejected while a stream plays.
C11_Witness ==
    \E c \in Callers :
        /\ caller[c].pc = "h_rejected"
        /\ status = "playing"
        /\ IsAlive(procs, process)
        /\ current_stream \in Urls

\* Every thread is idle or asleep: no call or request in progress, every monitor
\* ended or in one of its sleeps.
Quiescent == NoCallInProgress /\ \A m \in Monitors : mon[m].pc = "free" \/ MonSleeps(m)

\* C16 (status events): once the threads are idle or asleep, the retained status
\* message carries the status and the current stream of the player, whoever wrote
\* them last (a call or a monitor).
C16_StatusEvents ==
    Quiescent => retained = [status |-> status, stream |-> current_stream]

\* In the section of play()/stop() guarded by `with self._lock`
InCall(c) == caller[c].pc \notin {"idle", "h_rejected", "h_publish"}

\* C17 (mutual exclusion): at most one thread is inside play() or stop(), and it
\* holds the lock.
C17_MutualExclusion ==
    /\ Cardinality({c \in Callers : InCall(c)}) <= 1
    /\ \A c \in Callers : InCall(c) => lock = c

\* C17 witness: one thread is inside play() while another thread is active in
\* its request handler.
C17_Witness ==
    \E c, d \in Callers :
        /\ c # d
        /\ InCall(c)
        /\ caller[c].pc = "p_settle"
        /\ caller[d].pc = "h_publish"

\* C19: at most one feh viewer process is alive.
C19_SingleFallback == Cardinality(AliveFbs) <= 1

\* C18: with no call in progress (play hides the viewer a few statements after
\* its settle check), no feh viewer is alive while an mpv process that a settle
\* check has seen alive is still alive.
C18_FallbackVsHealthy ==
    (NoCallInProgress /\ AliveFbs # {}) => \A i \in Pids : procs[i] # "confirmed"

\* C13 (backoff reset): when the process a monitor relaunched is alive at the end
\* of the settle window, the monitor goes on to write status playing and to reset
\* attempts to 0.
C13_BackoffReset ==
    [][\A m \in Monitors :
          /\ (mon[m].pc = "m_settle" /\ MonStep(m) /\ IsAlive(procs, mon[m].new))
                => mon'[m].pc = "m_playing"
          /\ (mon[m].pc = "m_playing" /\ MonStep(m))
                => (status' = "playing" /\ mon'[m].attempts = 0)]_vars

\* C14 (exhaustion): a monitor writes status error only with max_attempts
\* attempts made, then invokes the fallback and ends; and the status is set to
\* error by an exhausted monitor at most once between two calls.
C14_ExhaustionOnce ==
    /\ last.exh <= 1
    /\ \A m \in Monitors : mon[m].pc \in {"m_error", "m_show"}
                              => mon[m].attempts = max_attempts

\* C15 (recovery cycle): when a monitor found the process exited during healthy
\* playback (status playing) and no call was made since, it launches a process
\* only if the process the player holds has exited (one launch for one exit); the
\* cycle writes reconnecting, then playing with attempts 0.
C15_RecoveryCycle ==
    [][\A m \in Monitors :
          /\ (mon[m].pc = "m_delay" /\ MonStep(m) /\ process' # process
              /\ NoCallInProgress /\ mon[m].at = budget)
                => ~IsAlive(procs, process)
          /\ (mon[m].pc = "m_reconnecting" /\ MonStep(m)) => status' = "reconnecting"
          /\ (mon[m].pc = "m_playing" /\ MonStep(m))
                => (status' = "playing" /\ mon'[m].attempts = 0 /\ process' = process)]_vars

\* C20 (handover ordering): play(b) terminates the outgoing process only after
\* the process it launched was alive at the settle check, and in no step before
\* or without that.
C20_HandoverOrdering ==
    [][\A c \in Callers :
          (/\ caller[c].pc \in {"p_launch", "p_stream", "p_starting", "p_settle",
                                "p_playing", "p_term_old", "p_crash_status",
                                "p_crash_show", "p_exc_status", "p_exc_show"}
           /\ caller'[c].pc # caller[c].pc
           /\ IsAlive(procs, caller[c].old)
           /\ ~IsAlive(procs', caller[c].old))
              => (caller[c].pc = "p_term_old" /\ caller[c].obs)]_vars

\* C12: every play() and stop() call returns, with the lock released, whatever
\* the outcome of the process launch, the termination and the fallback launch.
C12_CallsReturn ==
    \A c \in Callers : InCall(c) ~> (caller[c].pc = "idle" /\ lock # c)

\* C12 witness: a play() whose process launch raised has returned and the lock
\* is free.
C12_Witness ==
    /\ last.op = "play_fail"
    /\ NoCallInProgress
    /\ lock = 0
    /\ status = "error"

\* C21: the relaunch step of a monitor (the launch that writes self._process, and
\* the status write that follows its settle check) is taken only while no thread
\* is inside the locked section of play() or stop().
C21_RelaunchExcluded ==
    [][\A m \in Monitors :
          (mon[m].pc \in {"m_delay", "m_playing"} /\ MonStep(m)) => lock = 0]_vars

\* C22: at most one monitor loop iterates: a monitor thread passes its loop
\* condition (and goes on to poll) only when no other monitor thread exists.
C22_SingleMonitor ==
    [][\A m \in Monitors :
          (mon[m].pc = "m_loop" /\ mon'[m].pc = "m_sleep")
              => \A n \in Monitors \ {m} : mon[n].pc = "free"]_vars

\* C23: with no call in progress, whenever the status is stopped or error no
\* monitor thread is in its loop (a monitor that wrote error is past its last
\* poll and only has the fallback left to show).
C23_NoMonitorWhenDown ==
    (NoCallInProgress /\ status \in {"stopped", "error"})
        => \A m \in Monitors : mon[m].pc \in {"free", "m_show"}

\* C24: a step that changes the status to error changes it from starting or from
\* reconnecting, never from stopped or playing.
C24_ErrorEntry ==
    [][(status' = "error" /\ status # "error")
          => status \in {"starting", "reconnecting"}]_vars

\* C25: a step that changes the status to reconnecting changes it from playing,
\* and a step that changes it to playing changes it from starting or from
\* reconnecting.
C25_StatusEntry ==
    [][/\ (status' = "reconnecting" /\ status # "reconnecting") => status = "playing"
       /\ (status' = "playing" /\ status # "playing")
             => status \in {"starting", "reconnecting"}]_vars

\* C26: a running monitor sets a non-zero attempts counter back to 0 only in the
\* step that follows a settle check which found the process alive, and a poll
\* that finds the process alive leaves attempts as it is.
C26_AttemptsReset ==
    [][\A m \in Monitors :
          /\ (mon[m].attempts > 0 /\ mon'[m].attempts = 0 /\ mon'[m].pc # "free")
                => mon[m].pc = "m_playing"
          /\ (mon[m].pc = "m_sleep" /\ MonStep(m) /\ IsAlive(procs, process))
                => mon'[m].attempts = mon[m].attempts]_vars

\* C27: every process a monitor launches is launched for the url of the play call
\* that started that monitor.
C27_RelaunchUrl ==
    [][\A m \in Monitors :
          (mon[m].pc = "m_delay" /\ MonStep(m) /\ process' # process)
              => current_stream = mon[m].url]_vars

\* C28 (attempt budget): in a monitor loop attempts never exceeds max_attempts,
\* and the monitor makes at most max_attempts launches (a launch that raises
\* counts) without a settle check seeing the process alive in between.
C28_AttemptBudget ==
    \A m \in Monitors : mon[m].attempts <= max_attempts /\ mon[m].tries <= max_attempts

\* C29: under fair scheduling, while no play()/stop() call is made, a status of
\* reconnecting is followed by playing or error: it does not stay reconnecting
\* forever.
C29_ReconnectEnds ==
    (NoCallInProgress /\ status = "reconnecting")
        ~> (status \in {"playing", "error"} \/ ~NoCallInProgress)

\* C30: from the return of a play() that ended in status playing, while the
\* status is playing and until the next call begins, no feh viewer is alive,
\* whatever calls came before.
C30_NoFallbackAfterPlay ==
    (last.op = "play_ok" /\ status = "playing") => AliveFbs = {}

\* C31: from the return of stop() until the next call begins, no mpv process is
\* alive, whatever play calls came before.
C31_NoPlayerAfterStop ==
    last.op = "stop" => AliveProcs = {}

\* C32 (no orphan player): every mpv process that is alive is the one
\* self._process names or the old_process of a play() call in progress.
C32_NoOrphan ==
    \A i \in AliveProcs :
        i = process \/ \E c \in Callers : InCall(c) /\ caller[c].old = i

\* The thread inside _terminate_process takes the step.
TermStep == term'.pc # term.pc

\* C33 (terminate is idempotent): a call on a handle whose process has exited
\* returns from its liveness check: it sends no signal, blocks in no wait, raises
\* nothing and leaves every field of the player as it is (poll() only collects
\* the exit status); and once a call on the handle has returned, a further call
\* sends no signal and blocks in no wait.
C33_Idempotent ==
    [][/\ (term.pc = "t_poll" /\ TermStep /\ term.state # "running")
             => /\ term'.pc = "idle"
                /\ term'.sigs = term.sigs
                /\ term'.waits = term.waits
                /\ ~term'.raised
                /\ UNCHANGED <<procs, process, status, current_stream, fbprocs,
                               fallback_process, monitor_thread, running>>
       /\ term.calls >= 2
             => (term'.sigs = term.sigs /\ term'.waits = term.waits)]_vars

\* C33 witness: a second call has returned on the handle of a process that the
\* first call terminated with SIGTERM.
C33_Witness ==
    /\ term.given
    /\ term.calls = 2
    /\ term.pc = "idle"
    /\ term.sigs = <<"TERM">>

\* C34 (escalation order): SIGKILL is sent only after SIGTERM, after the wait of
\* the grace period timed out, and to a process that had not exited when the
\* grace period ended.
C34_EscalationOrder ==
    /\ \A i \in 1..Len(term.sigs) :
          term.sigs[i] = "KILL" => (i > 1 /\ term.sigs[i - 1] = "TERM")
    /\ (\E i \in 1..Len(term.sigs) : term.sigs[i] = "KILL")
          => (term.waits >= 1 /\ term.exited_at = "t_sigkill")

\* C34 witness: the process ignored SIGTERM, was killed and the call returned.
C34_Witness ==
    /\ term.sigs = <<"TERM", "KILL">>
    /\ term.pc = "idle"
    /\ term.state = "reaped"

\* C35: every _terminate_process call returns, and once a call on a handle has
\* returned its process has exited, also when a signal call raised.
C35_TerminateReturns ==
    /\ []((term.pc = "idle" /\ term.calls > 0 /\ term.given) => term.state # "running")
    /\ (term.pc # "idle") ~> (term.pc = "idle")

\* C35 witness: the process exited and was reaped between the liveness check and
\* the signal, the signal call raised and the call has returned.
C35_Witness ==
    /\ term.pc = "idle"
    /\ term.raised
    /\ term.sigs = <<>>
    /\ term.state = "reaped"

\* Thread c takes a step of its call.
CallStep(c) == caller'[c].pc # caller[c].pc

\* The step leaves the viewer, its handle, the status and the player process alone.
C36_Frame ==
    UNCHANGED <<fbprocs, fallback_process, status, process, procs, current_stream>>

\* C36: _show_fallback with no image to show (path unset or file missing) spawns
\* no process and leaves the fallback handle, the status and the player process
\* unchanged, in play, in stop and in the monitor; _stop_fallback with no
\* fallback handle changes nothing either.
C36_FallbackNoOp ==
    [][/\ \A c \in Callers :
             /\ (caller[c].pc \in {"p_crash_show", "p_exc_show", "s_show"}
                 /\ CallStep(c) /\ ~fallback_image) => C36_Frame
             /\ (caller[c].pc = "p_hide" /\ CallStep(c) /\ fallback_process = 0)
                   => C36_Frame
       /\ \A m \in Monitors :
             (mon[m].pc = "m_show" /\ MonStep(m) /\ ~fallback_image) => C36_Frame]_vars

\* C36 witness: with no image configured, a stop() is past its _show_fallback
\* after a play that had passed its _stop_fallback with no viewer to hide.
C36_Witness ==
    /\ ~fallback_image
    /\ \E c \in Callers : caller[c].pc = "s_ret" /\ caller[c].pre = "playing"
    /\ fallback_process = 0
    /\ AliveFbs = {}

\* The delays the claim lists: 5, 10, 20, 40, 60, 60, ...
Expected(n) == IF n <= 4 THEN <<5, 10, 20, 40>>[n] ELSE 60

\* C37: the delay slept before the n-th consecutive MQTT reconnect is
\* 5, 10, 20, 40, 60, 60, ... seconds: never above 60 and non-decreasing in n;
\* the monitor's relaunch delay is the same at every attempt.
C37_Backoff ==
    /\ mq.cb.pc = "sleep" =>
          /\ mq.cb.delay = Expected(mq.count)
          /\ mq.cb.delay <= 60
    /\ \A n \in 1..MaxReconnects : Backoff(n) <= Backoff(n + 1)
    /\ \A k \in 1..MaxReconnects : ReconnectDelay(k) = ReconnectDelay(1)

C37_Witness == mq.cb.pc = "sleep" /\ mq.count = 6 /\ mq.cb.delay = 60

\* A step of the MQTT client in which a connection succeeds
Succeeds == mq'.connected /\ ~mq.connected

\* C38: the MQTT reconnect counter is set to 0 by every successful connection
\* and by nothing else; the first disconnect after a successful connection
\* waits 5 seconds; once stop() has returned, no connection is started.
C38_ResetAndStop ==
    [][/\ Succeeds => mq'.count = 0
       /\ (mq.count # 0 /\ mq'.count = 0) => Succeeds
       /\ (mq.fresh /\ mq.cb.pc = "idle" /\ mq'.cb.pc = "sleep") => mq'.cb.delay = 5
       /\ mq.st = "done" => mq'.conns = mq.conns]_vars

\* The signal handler's stop() has returned.
HandlerReturned == \E c \in Callers : caller[c].pc = "exited"

\* C39: the stop() the shutdown signal handler invokes eventually returns, also
\* when the signal arrives while the main thread is inside play().
C39_HandlerStopReturns == (sig.pc = "waiting") ~> HandlerReturned

\* The passwords self.config holds
Stored(s) == conf.heap[conf.top[s]].password

\* C40: after any sequence of GET /api/config and POST /api/config with masked
\* passwords, the stored mqtt and unifi_protect passwords are the ones from
\* before the sequence (so a GET alone changes neither).
C40_SecretsKept == \A s \in Sections : Stored(s) = conf.orig[s]

====
